---- MODULE Spec2Model ----
(***************************************************************************)
(* RAGBook: the tool-calling conversation loop (agent/agent.py) and the    *)
(* retrieval service with its vector index (agent/tools.py,                *)
(* rag_system/vector_store.py).                                            *)
(*                                                                         *)
(* Strings are modelled as sequences of non-empty text atoms: the empty    *)
(* string is <<>> and concatenation is \o.  An f-string becomes the        *)
(* sequence of its literal pieces and its interpolated values.             *)
(*                                                                         *)
(* The specifications share the variables:                                 *)
(*   Spec / FairSpec : one BookingAssistant session (chat, clear_history)  *)
(*   KBSpec          : the VectorStore and search_knowledge_base over it   *)
(*   AppSpec         : the sessions of the Streamlit app, one assistant    *)
(*                     each                                                *)
(***************************************************************************)
EXTENDS Integers, Sequences, FiniteSets, TLC

VARIABLES
    \* ---- BookingAssistant (agent.py) ----
    max_history,    \* self.max_history
    chat_history,   \* self.chat_history: sequence of [role, content]
    chat_session,   \* self.chat_session: None or the dialogue handle
    pc,             \* position of the chat call: "idle", "awaiting_model", "tool_running"
    user_message,   \* argument of the chat call in progress
    response,       \* local `response` of chat: the last model response received
    function_call,  \* local `function_call` of chat: the part extracted from `response`
    tool_result,    \* local `tool_result` of chat
    sent,           \* the last message passed to chat_session.send_message
    outcome,        \* how the last chat call ended: returned value or raised exception
    bookings,       \* the booking store: number of rows of the bookings table
    \* ---- history of the session, kept for the properties ----
    ncalls,         \* number of chat calls since construction / clear_history
    recorded,       \* the entries appended to chat_history since then, in order:
                    \* the (user, assistant) transcript of the turns that completed
    dispatched,     \* indexes of the parts of `response` handed to _execute_tool
    invoked,        \* tool invocations made for `function_call`: sequence of [name, args]
    tool_outcome,   \* how the dispatch of `function_call` ended
    reply_src,      \* the response the returned reply was extracted from
    \* ---- retrieval (tools.py, vector_store.py) ----
    collection,     \* the Chroma collection: sequence of records in insertion order
    coll_live,      \* the collection self.collection refers to exists in the database
    kb_last,        \* the last operation on the collection, with what it returned
    added,          \* documents passed to the add_documents calls that returned
                    \* since the collection was created
    next_id,        \* source of fresh record ids (uuid4)
    kb_pc,          \* position of the search_knowledge_base call: "idle", "remote",
                    \* "local", "done" (returned, the caller holds the value);
                    \* "store_done": a call on the VectorStore itself has returned
    kb_query,       \* its argument
    kb_remote,      \* what the remote /search request did
    kb_local,       \* what the local fallback did (its inputs and search results)
    kb_result,      \* how the last search_knowledge_base call ended
    \* ---- the Streamlit app's sessions (streamlit_app.py) ----
    assistants,     \* the BookingAssistant objects constructed so far, in order
    session_state,  \* per browser session: st.session_state.assistant, as the
                    \* index of the object in `assistants` (0: not set yet)
    actor,          \* the session whose operation ran last (kept for the properties)
    \* ---- the booking store (booking.db; tools.py, main.py) ----
    db,             \* the committed database: the customers and bookings tables
                    \* and the AUTOINCREMENT counters (sqlite_sequence)
    db_lock,        \* the connection that holds the write (RESERVED) lock, or "none"
    calls,          \* per caller: its create_booking call (position, arguments,
                    \* the row it read, its open transaction, how it ended, and,
                    \* kept for the properties, the emails of the calls it overlapped)
    \* ---- the lazily created module globals (tools.py, agent.py) ----
    _vector_store,          \* tools._vector_store: 0 for None, else the instance
    _assistant_instance,    \* agent._assistant_instance: 0 for None, else the instance
    constructed,    \* per getter: the instances constructed so far
    threads,        \* per thread: its call of a getter (position, the instance it made)
    returned        \* per getter: the instances its calls have returned (kept for
                    \* the properties)

agent_vars == <<max_history, chat_history, chat_session, pc, user_message, response,
                function_call, tool_result, sent, outcome, bookings, ncalls,
                recorded, dispatched, invoked, tool_outcome, reply_src>>
kb_vars == <<collection, coll_live, kb_last, added, next_id, kb_pc, kb_query, kb_remote,
             kb_local, kb_result>>
app_vars == <<assistants, session_state, actor>>
db_vars == <<db, db_lock, calls>>
lazy_vars == <<_vector_store, _assistant_instance, constructed, threads, returned>>
vars == <<agent_vars, kb_vars, app_vars, db_vars, lazy_vars>>

----------------------------------------------------------------------------
(* Bounds of the model *)

\* largest max_history a session is constructed with
MaxM == 2
\* chat calls per session between two clear_history calls
MaxTurns == 2
\* rows the bookings table can take
MaxBookings == 1

----------------------------------------------------------------------------
(* Values *)

\* Python's None, where a variable holds None or an object
None == [kind |-> "None"]
NoResponse == [kind |-> "none"]
NoCall == [text |-> "", name |-> "", args |-> "none"]
NoMessage == [kind |-> "none"]

\* the user's message of the n-th chat call (the loop never inspects it)
UserMessage(n) == <<"user message", ToString(n)>>
\* the user's confirmation, and the reply of the assistant that asks for it
Yes == <<"yes">>
BookingSummary == "Summary of your booking ... Is this correct? Should I proceed?"

\* TOOL_MAP keys
TOOL_MAP == {"search_knowledge_base", "create_booking", "send_confirmation_email",
             "get_booking_info", "web_search_movies"}

\* a key of TOOL_MAP that is bound to another tool's function
ToolFuncMisrouted(tool_name) ==
    IF tool_name = "search_knowledge_base" THEN "create_booking" ELSE tool_name

\* TOOL_MAP[tool_name]: the function (named by its def) the key is bound to
ToolFunc(tool_name) ==
    [search_knowledge_base |-> "search_knowledge_base",
     create_booking |-> "create_booking",
     send_confirmation_email |-> "send_confirmation_email",
     get_booking_info |-> "get_booking_info",
     web_search_movies |-> "web_search_movies"][tool_name]

\* A response part (genai.protos.Part): `text` and `function_call.name` are both
\* always readable; the one that is not set reads as the empty string.
\* function_call.args reads as None ("absent") when the call carries no args.
TextPart(t) == [text |-> t, name |-> "", args |-> "none"]
CallPart(n, a) == [text |-> "", name |-> n, args |-> a]

\* A model response: candidates present or not, the parts of candidates[0].content,
\* candidates[0].finish_reason, and what the `response.text` accessor does
\* (text_raises: it raises ValueError; otherwise it yields `text`).
Resp(c, p, f, tr, t) ==
    [kind |-> "response", cands |-> c, parts |-> p, finish_reason |-> f,
     text_raises |-> tr, text |-> t]

Responses ==
    { Resp(TRUE, <<TextPart("hi")>>, 1, FALSE, "hi"),
      Resp(TRUE, <<TextPart("a"), TextPart(""), TextPart("b")>>, 1, FALSE, ""),
      Resp(TRUE, <<TextPart(BookingSummary)>>, 1, FALSE, BookingSummary),
      Resp(TRUE, <<>>, 3, FALSE, ""),
      Resp(TRUE, <<>>, 12, FALSE, ""),
      Resp(TRUE, <<>>, 1, TRUE, ""),
      Resp(FALSE, <<>>, 0, TRUE, ""),
      Resp(TRUE, <<CallPart("search_knowledge_base", "args1")>>, 1, TRUE, ""),
      Resp(TRUE, <<TextPart("wait"), CallPart("create_booking", "args2"),
                   CallPart("send_confirmation_email", "args3")>>, 1, TRUE, ""),
      Resp(TRUE, <<CallPart("no_such_tool", "args1")>>, 1, TRUE, ""),
      Resp(TRUE, <<CallPart("get_booking_info", "absent")>>, 1, TRUE, ""),
      Resp(TRUE, <<CallPart("no_such_tool", "absent")>>, 1, TRUE, "") }

\* str(e) of the exceptions send_message can raise
ProviderErrors == {"finish_reason: 3", "connection reset"}
\* substring test `"finish_reason" in error_str`
MentionsFinishReason(error_str) == error_str \in {"finish_reason: 3"}

\* what a registered tool can do when invoked: return a string or raise
ToolResults == {"result1", "result2"}
ToolErrors == {"tool failed"}

\* The one tool function that writes the booking store is create_booking, which
\* returns its confirmation after the INSERT is committed and its error string
\* otherwise; of ToolResults, "result1" stands for the confirmation.
BookingCommitted(tool_func, result) ==
    tool_func = "create_booking" /\ result = "result1"

\* Results of a call: a returned value or a raised exception with its str(e)
Return(v) == [kind |-> "return", value |-> v]
Raise(d) == [kind |-> "raise", detail |-> d]

Str(x) == IF x = "" THEN <<>> ELSE <<x>>

\* The dialogue handle (ChatSession).  Of the history the provider keeps for
\* it, the model keeps the user's messages that were answered.
\* model.start_chat(history=[]): a new handle, nothing in its history
start_chat == [kind |-> "ChatSession", history |-> <<>>]
\* the handle after send_message(message) returned a response
SendMessageReturned(session, message) ==
    IF message.kind = "user"
    THEN [session EXCEPT !.history = Append(@, message.content)]
    ELSE session


----------------------------------------------------------------------------
(* Python helpers *)

\* s[-n:] for n >= 0: -0 is 0, so s[-0:] is the whole list
PyLast(s, n) ==
    IF n = 0 \/ n >= Len(s) THEN s ELSE SubSeq(s, Len(s) - n + 1, Len(s))

\* sep.join(parts), every element of parts being a string
RECURSIVE Join(_, _)
Join(parts, sep) ==
    IF parts = <<>> THEN <<>>
    ELSE IF Len(parts) = 1 THEN parts[1]
    ELSE parts[1] \o sep \o Join(Tail(parts), sep)


----------------------------------------------------------------------------
(* BookingAssistant: pure parts *)

\* a trim that counts entries where the code counts turns
TrimToEntries(history, M) ==
    IF Len(history) > M THEN PyLast(history, M) ELSE history

\* _trim_history: the new value of chat_history
_trim_history(history, M) ==
    IF Len(history) > M * 2 THEN PyLast(history, M * 2) ELSE history

\* chat, the for loop over the parts: index of the part `function_call` is taken
\* from (the first whose function_call.name is non-empty), 0 when there is none
RECURSIVE ScanParts(_, _)
ScanParts(parts, i) ==
    IF i > Len(parts) THEN 0
    ELSE IF parts[i].name # "" THEN i
    ELSE ScanParts(parts, i + 1)

\* a loop without the `break`: the last function-call part wins
RECURSIVE ScanAllParts(_, _, _)
ScanAllParts(parts, i, found) ==
    IF i > Len(parts) THEN found
    ELSE ScanAllParts(parts, i + 1, IF parts[i].name # "" THEN i ELSE found)
LastFunctionCall(parts) == ScanAllParts(parts, 1, 0)

FirstFunctionCall(parts) == ScanParts(parts, 1)

\* _execute_tool, `args = dict(function_call.args)`: dict(None) raises TypeError
ExecuteToolArgs(fc) ==
    IF fc.args = "absent" THEN Raise("'NoneType' object is not iterable")
    ELSE Return(fc.args)

\* _execute_tool, the branch `tool_name not in TOOL_MAP`
ExecuteToolUnknown(tool_name) ==
    Return(<<"Error: Unknown tool '", tool_name, "'">>)

\* _execute_tool, the try block: the tool returned `result`
ExecuteToolReturned(tool_name, result) == Return(Str(result))

\* _execute_tool without its try/except: the tool's exception leaves _execute_tool
ExecuteToolRaisedPropagates(tool_name, detail) == Raise(detail)

\* _execute_tool, the except block: the tool raised, str(e) = detail
ExecuteToolRaised(tool_name, detail) ==
    Return(<<"Error executing ", tool_name, ": ">> \o Str(detail))

\* the function response chat sends back to the model
FunctionResponse(name, result) ==
    [kind |-> "function_response", name |-> name, result |-> result]

\* _extract_response_text
TextParts(parts) ==
    LET RECURSIVE Keep(_)
        Keep(ps) == IF ps = <<>> THEN <<>>
                    ELSE IF Head(ps).text # "" THEN <<Str(Head(ps).text)>> \o Keep(Tail(ps))
                    ELSE Keep(Tail(ps))
    IN Keep(parts)

_extract_response_text(r) ==
    IF r.text_raises
    THEN <<"Error processing response: ", "response.text unavailable">>
    ELSE IF r.text # "" THEN <<r.text>>
    ELSE IF r.cands
         THEN IF r.parts # <<>> /\ TextParts(r.parts) # <<>>
              THEN Join(TextParts(r.parts), <<"\n">>)
              ELSE IF r.finish_reason = 3
                   THEN <<"I apologize, but I can't respond to that request due to content restrictions.">>
                   ELSE IF r.finish_reason = 12
                        THEN <<"I apologize, but I couldn't generate a response. Please try rephrasing your request.">>
                        ELSE <<"I apologize, but I couldn't generate a response. Please try again.">>
         ELSE <<"I apologize, but I couldn't generate a response. Please try again.">>

\* chat without its except block: the exception reaches the caller
ChatExceptReraises(error_str) == Raise(error_str)

\* chat, `except Exception as e`: what the call does with an exception, str(e) = error_str
ChatExcept(error_str) ==
    IF MentionsFinishReason(error_str)
    THEN Return(<<"I apologize, but I couldn't process that request. Please try rephrasing your message or provide the information in a different way.">>)
    ELSE Return(<<"I encountered an error: ", error_str,
                  ". Please try again or rephrase your request.">>)

\* a chat that opens a new dialogue on every call
AlwaysStartChat(session) == start_chat

\* chat, `if self.chat_session is None: self.chat_session = start_chat(...)`
LazyStartChat(session) == IF session = None THEN start_chat ELSE session

\* what the user may type for chat call n: any message, and "yes" when the
\* assistant's last reply was the booking summary
UserMessages(n, history) ==
    {UserMessage(n)} \cup
    (IF history # <<>> /\ history[Len(history)].content = <<BookingSummary>>
     THEN {Yes} ELSE {})

Turn(msg, reply) ==
    << [role |-> "user", content |-> msg], [role |-> "assistant", content |-> reply] >>


----------------------------------------------------------------------------
(* BookingAssistant: the chat call, step by step *)

AgentInit ==
    /\ max_history \in 0..MaxM
    /\ chat_history = <<>>
    /\ chat_session = None
    /\ pc = "idle"
    /\ user_message = <<>>
    /\ response = NoResponse
    /\ function_call = NoCall
    /\ tool_result = <<>>
    /\ sent = NoMessage
    /\ outcome = [kind |-> "none"]
    /\ bookings = 0
    /\ ncalls = 0
    /\ recorded = <<>>
    /\ dispatched = <<>>
    /\ invoked = <<>>
    /\ tool_outcome = [kind |-> "none"]
    /\ reply_src = NoResponse

\* an except block that records the failed turn
ChatFailsRecords(error_str) ==
    /\ outcome' = ChatExcept(error_str)
    /\ reply_src' = NoResponse
    /\ pc' = "idle"
    /\ chat_history' = _trim_history(chat_history \o Turn(user_message, outcome'.value),
                                     max_history)
    /\ UNCHANGED <<max_history, user_message, ncalls, recorded>>

\* The call leaves through `except Exception`: nothing is appended to chat_history
ChatFails(error_str) ==
    /\ outcome' = ChatExcept(error_str)
    /\ reply_src' = NoResponse
    /\ pc' = "idle"
    /\ UNCHANGED <<chat_history, max_history, user_message, ncalls, recorded>>

\* a loop that trims the history each time a tool result comes back
AfterExecuteToolTrims(fc, res) ==
    IF res.kind = "raise"
    THEN /\ ChatFails(res.detail)
         /\ UNCHANGED <<tool_result, sent>>
    ELSE /\ tool_result' = res.value
         /\ sent' = FunctionResponse(fc.name, res.value)
         /\ pc' = "awaiting_model"
         /\ chat_history' = IF chat_history = <<>> THEN <<>> ELSE Tail(Tail(chat_history))
         /\ UNCHANGED <<max_history, user_message, ncalls, outcome, recorded, reply_src>>

\* What chat does with the result of _execute_tool: send it back to the model,
\* or leave through the except block when _execute_tool raised
AfterExecuteTool(fc, res) ==
    IF res.kind = "raise"
    THEN /\ ChatFails(res.detail)
         /\ UNCHANGED <<tool_result, sent>>
    ELSE /\ tool_result' = res.value
         /\ sent' = FunctionResponse(fc.name, res.value)
         /\ pc' = "awaiting_model"
         /\ UNCHANGED <<chat_history, max_history, user_message, ncalls,
                        outcome, recorded, reply_src>>

\* chat(user_message) up to the first send_message
ChatStart ==
    /\ UNCHANGED <<kb_vars, app_vars, db_vars, lazy_vars>>
    /\ pc = "idle"
    /\ ncalls < MaxTurns
    /\ chat_session' = LazyStartChat(chat_session)
    /\ \E msg \in UserMessages(ncalls + 1, recorded) : user_message' = msg
    /\ sent' = [kind |-> "user", content |-> user_message']
    /\ pc' = "awaiting_model"
    /\ ncalls' = ncalls + 1
    /\ outcome' = [kind |-> "pending"]
    /\ response' = NoResponse
    /\ function_call' = NoCall
    /\ tool_result' = <<>>
    /\ dispatched' = <<>>
    /\ invoked' = <<>>
    /\ tool_outcome' = [kind |-> "none"]
    /\ reply_src' = NoResponse
    /\ UNCHANGED <<max_history, chat_history, recorded, bookings>>

\* send_message raises
ModelRaises(error_str) ==
    /\ UNCHANGED <<kb_vars, app_vars, db_vars, lazy_vars>>
    /\ pc = "awaiting_model"
    /\ ChatFails(error_str)
    /\ UNCHANGED <<bookings, chat_session, response, function_call, tool_result, sent, dispatched,
                   invoked, tool_outcome>>

\* send_message returns a response without candidates: candidates[0] raises IndexError
ModelRespondsNoCandidates(r) ==
    /\ UNCHANGED <<kb_vars, app_vars, db_vars, lazy_vars>>
    /\ pc = "awaiting_model"
    /\ ~r.cands
    /\ chat_session' = SendMessageReturned(chat_session, sent)
    /\ response' = r
    /\ function_call' = NoCall
    /\ dispatched' = <<>>
    /\ invoked' = <<>>
    /\ tool_outcome' = [kind |-> "none"]
    /\ ChatFails("list index out of range")
    /\ UNCHANGED <<bookings, tool_result, sent>>

\* send_message returns a response in which the loop finds no function call:
\* extract the text, record the turn, trim, return
ModelRespondsFinal(r) ==
    /\ UNCHANGED <<kb_vars, app_vars, db_vars, lazy_vars>>
    /\ pc = "awaiting_model"
    /\ r.cands
    /\ FirstFunctionCall(r.parts) = 0
    /\ chat_session' = SendMessageReturned(chat_session, sent)
    /\ response' = r
    /\ LET assistant_message == _extract_response_text(r) IN
        /\ chat_history' =
               _trim_history(chat_history \o Turn(user_message, assistant_message),
                             max_history)
        /\ recorded' = recorded \o Turn(user_message, assistant_message)
        /\ outcome' = Return(assistant_message)
    /\ reply_src' = r
    /\ pc' = "idle"
    /\ function_call' = NoCall
    /\ dispatched' = <<>>
    /\ invoked' = <<>>
    /\ tool_outcome' = [kind |-> "none"]
    /\ UNCHANGED <<max_history, user_message, ncalls, tool_result, sent, bookings>>

\* The loop found a function call and hands it to _execute_tool
Dispatch(r) ==
    /\ pc = "awaiting_model"
    /\ r.cands
    /\ FirstFunctionCall(r.parts) # 0
    /\ chat_session' = SendMessageReturned(chat_session, sent)
    /\ response' = r
    /\ function_call' = r.parts[FirstFunctionCall(r.parts)]
    /\ dispatched' = <<FirstFunctionCall(r.parts)>>

\* ... and dict(function_call.args) raises inside _execute_tool
ModelRespondsCallArgsFail(r) ==
    /\ UNCHANGED <<kb_vars, app_vars, db_vars, lazy_vars>>
    /\ Dispatch(r)
    /\ ExecuteToolArgs(function_call').kind = "raise"
    /\ invoked' = <<>>
    /\ tool_outcome' = [kind |-> "args_failed"]
    /\ UNCHANGED bookings
    /\ AfterExecuteTool(function_call', ExecuteToolArgs(function_call'))

\* ... and the name is not in TOOL_MAP
ModelRespondsUnknownTool(r) ==
    /\ UNCHANGED <<kb_vars, app_vars, db_vars, lazy_vars>>
    /\ Dispatch(r)
    /\ ExecuteToolArgs(function_call').kind = "return"
    /\ function_call'.name \notin TOOL_MAP
    /\ invoked' = <<>>
    /\ tool_outcome' = [kind |-> "unknown"]
    /\ UNCHANGED bookings
    /\ AfterExecuteTool(function_call', ExecuteToolUnknown(function_call'.name))

\* ... and the registered tool is invoked: tool_func(**args) starts
ModelRespondsToolStart(r) ==
    /\ UNCHANGED <<kb_vars, app_vars, db_vars, lazy_vars>>
    /\ Dispatch(r)
    /\ ExecuteToolArgs(function_call').kind = "return"
    /\ function_call'.name \in TOOL_MAP
    /\ invoked' = <<[name |-> ToolFunc(function_call'.name),
                     args |-> ExecuteToolArgs(function_call').value]>>
    /\ tool_outcome' = [kind |-> "running"]
    /\ pc' = "tool_running"
    /\ UNCHANGED <<bookings, max_history, chat_history, user_message, ncalls,
                   outcome, recorded, reply_src, tool_result, sent>>

\* the tool returns `result`
ToolReturns(result) ==
    /\ UNCHANGED <<kb_vars, app_vars, db_vars, lazy_vars>>
    /\ pc = "tool_running"
    /\ BookingCommitted(invoked[1].name, result) => bookings < MaxBookings
    /\ bookings' = IF BookingCommitted(invoked[1].name, result)
                   THEN bookings + 1 ELSE bookings
    /\ tool_outcome' = [kind |-> "returned", value |-> result]
    /\ AfterExecuteTool(function_call, ExecuteToolReturned(function_call.name, result))
    /\ UNCHANGED <<chat_session, response, function_call, dispatched, invoked>>

\* the tool raises, str(e) = detail
ToolRaises(detail) ==
    /\ UNCHANGED <<kb_vars, app_vars, db_vars, lazy_vars>>
    /\ pc = "tool_running"
    /\ tool_outcome' = [kind |-> "raised", detail |-> detail]
    /\ UNCHANGED bookings
    /\ AfterExecuteTool(function_call, ExecuteToolRaised(function_call.name, detail))
    /\ UNCHANGED <<chat_session, response, function_call, dispatched, invoked>>

\* clear_history
ClearHistory ==
    /\ UNCHANGED <<kb_vars, app_vars, db_vars, lazy_vars>>
    /\ pc = "idle"
    /\ chat_history' = <<>>
    /\ chat_session' = None
    /\ ncalls' = 0
    /\ recorded' = <<>>
    /\ UNCHANGED <<max_history, pc, user_message, response, function_call, tool_result,
                   sent, outcome, bookings, dispatched, invoked, tool_outcome, reply_src>>

AgentNext ==
    \/ ChatStart
    \/ \E e \in ProviderErrors : ModelRaises(e)
    \/ \E r \in Responses : ModelRespondsNoCandidates(r)
    \/ \E r \in Responses : ModelRespondsFinal(r)
    \/ \E r \in Responses : ModelRespondsCallArgsFail(r)
    \/ \E r \in Responses : ModelRespondsUnknownTool(r)
    \/ \E r \in Responses : ModelRespondsToolStart(r)
    \/ \E result \in ToolResults : ToolReturns(result)
    \/ \E detail \in ToolErrors : ToolRaises(detail)
    \/ ClearHistory

----------------------------------------------------------------------------
(* Retrieval: values *)

\* Python values that occur as metadata and JSON values, tagged with their type
NoneV == [t |-> "none", v |-> ""]
StrV(x) == [t |-> "str", v |-> x]
IntV(n) == [t |-> "int", v |-> n]
ListV == [t |-> "list", v |-> ""]
\* `if value`
Truthy(x) ==
    CASE x.t = "none" -> FALSE
      [] x.t = "int" -> x.v # 0
      [] x.t = "str" -> x.v # ""
      [] OTHER -> TRUE
\* f"{value}"
Fmt(x) ==
    CASE x.t = "none" -> <<"None">>
      [] x.t = "int" -> <<ToString(x.v)>>
      [] x.t = "str" -> Str(x.v)
      [] OTHER -> <<"[...]">>
\* mapping.get(key, default)
Get(m, key, default) == IF key \in DOMAIN m THEN m[key] ELSE default

\* dimension of the fallback vector, `[0.0] * 768`
EmbDim == 768
\* dimension of the vectors of the embedding model, "models/embedding-001"
ProviderDim == 768
\* The embedding of a text, as the provider computes it: the vector
\* (x, 0, ..., 0) of dimension ProviderDim is written [dim |-> ProviderDim, x |-> x]
Vec(x) == [dim |-> ProviderDim, x |-> x]
ProviderEmbedding(text) ==
    CASE text = "c1" -> Vec(1)
      [] text = "c2" -> Vec(2)
      [] text = "q1" -> Vec(1)
      [] text = "q2" -> Vec(3)
      [] OTHER -> Vec(5)
\* Chroma's default distance (squared L2)
Distance(a, b) == (a.x - b.x) * (a.x - b.x)

Queries == {"q1", "q2"}

\* documents handed to add_documents
Doc(c, t, m) == [content |-> c, title |-> t, metadata |-> m]
\* two chunks of the document "X"; only the second carries full_content
Chunk1 ==
    Doc("c1", "T1", [source_file |-> StrV("a.pdf"), page_number |-> IntV(2),
                     original_document_id |-> StrV("X")])
Chunk2 ==
    Doc("c2", "T2", [page_number |-> NoneV, tags |-> ListV, title |-> StrV("old"),
                     original_document_id |-> StrV("X"),
                     full_content |-> StrV("full text of X")])
Documents == {Chunk1, Chunk2}
DocLists ==
    {<<>>} \cup {<<d>> : d \in Documents} \cup {<<Chunk1, e>> : e \in Documents}
\* arguments of get_full_context and of VectorStore.search
DocumentIds == {"X", "Y"}
TopKs == {1, 2, 5}

\* bodies of a 200 answer of the remote /search endpoint, as response.json() reads them
RemoteResults ==
    { <<>>,
      << [content |-> StrV("r1"), source_file |-> StrV("a.pdf"), page_number |-> IntV(7)] >>,
      << [content |-> StrV(""), source_file |-> NoneV, page_number |-> IntV(0)],
         [title |-> StrV("no content key")] >> }
RemoteJson ==
    {[kind |-> "dict", has_results |-> TRUE, results |-> rs] : rs \in RemoteResults}
    \cup {[kind |-> "dict", has_results |-> FALSE, results |-> <<>>]}
FailureStatus == {404, 500, 503}
RequestExceptions == {"Timeout", "ConnectionError"}

----------------------------------------------------------------------------
(* VectorStore (vector_store.py) *)

\* bound: records in the collection
MaxDocs == 4

\* a fallback vector one component short
ZeroVectorShort == [dim |-> EmbDim - 1, x |-> 0]

\* `[0.0] * 768`
ZeroVector == [dim |-> EmbDim, x |-> 0]

\* _get_embedding / _get_query_embedding: the provider's vector, or the zero
\* vector when embed_content raises
_get_embedding(text, provider_ok) ==
    IF provider_ok THEN ProviderEmbedding(text) ELSE ZeroVector
_get_query_embedding(text, provider_ok) ==
    IF provider_ok THEN ProviderEmbedding(text) ELSE ZeroVector

\* Chroma fixes a collection's dimension with its first record; collection.add
\* and collection.query raise InvalidDimensionException for a vector of
\* another dimension
CollectionAccepts(col, vectors) ==
    \A i \in 1..Len(vectors) :
        vectors[i].dim = (IF col = <<>> THEN vectors[1].dim ELSE col[1].embedding.dim)
DimensionMismatch == "Embedding dimension does not match collection dimensionality"

\* a filter that drops None only
IsNotNone(x) == x.t # "none"

\* add_documents, the metadata of one document: scalar values only, plus title
IsScalar(x) == x.t \in {"str", "int", "float", "bool"}
StoredMetadata(doc) ==
    LET kept == {k \in DOMAIN doc.metadata : IsScalar(doc.metadata[k])} IN
    [k \in kept \cup {"title"} |->
        IF k = "title" THEN StrV(doc.title) ELSE doc.metadata[k]]

\* records whose id is derived from the document's text
NewRecordsContentIds(documents, first_id, provider_ok) ==
    [i \in 1..Len(documents) |->
        [id |-> documents[i].content,
         embedding |-> _get_embedding(documents[i].content, provider_ok[i]),
         document |-> documents[i].content,
         metadata |-> StoredMetadata(documents[i])]]

\* add_documents, the records built for `documents`; ids are fresh (uuid4),
\* provider_ok[i] tells whether the embedding call for document i succeeded
NewRecords(documents, first_id, provider_ok) ==
    [i \in 1..Len(documents) |->
        [id |-> first_id + i - 1,
         embedding |-> _get_embedding(documents[i].content, provider_ok[i]),
         document |-> documents[i].content,
         metadata |-> StoredMetadata(documents[i])]]

\* a ranking that puts the farthest records first
Farther(col, q, i, j) ==
    \/ Distance(col[i].embedding, q) > Distance(col[j].embedding, q)
    \/ Distance(col[i].embedding, q) = Distance(col[j].embedding, q) /\ i <= j

\* collection.query(query_embeddings=[q], n_results=n): indexes of the n nearest
\* records, nearest first (equal distances in insertion order)
Nearer(col, q, i, j) ==
    \/ Distance(col[i].embedding, q) < Distance(col[j].embedding, q)
    \/ Distance(col[i].embedding, q) = Distance(col[j].embedding, q) /\ i <= j
RECURSIVE NearestOf(_, _, _, _)
NearestOf(col, q, candidates, n) ==
    IF n = 0 \/ candidates = {} THEN <<>>
    ELSE LET best == CHOOSE i \in candidates : \A j \in candidates : Nearer(col, q, i, j)
         IN <<best>> \o NearestOf(col, q, candidates \ {best}, n - 1)
CollectionQuery(col, q, n) == NearestOf(col, q, 1..Len(col), n)

\* VectorStore.search(query, top_k): the formatted results
VectorStoreSearch(col, query, top_k, provider_ok) ==
    LET q == _get_query_embedding(query, provider_ok)
        hits == CollectionQuery(col, q, top_k)
    IN [n \in 1..Len(hits) |->
           LET rec == col[hits[n]] IN
           [content |-> StrV(rec.document),
            metadata |-> rec.metadata,
            similarity_score |-> 1 - Distance(rec.embedding, q),
            title |-> Get(rec.metadata, "title", StrV("Unknown")),
            source_file |-> Get(rec.metadata, "source_file", StrV("Unknown")),
            page_number |-> Get(rec.metadata, "page_number", NoneV),
            chunk_id |-> Get(rec.metadata, "chunk_id", NoneV),
            original_document_id |-> Get(rec.metadata, "original_document_id", NoneV),
            has_full_context |-> "full_content" \in DOMAIN rec.metadata]]

\* VectorStore.search as a call: collection.query raises when the collection
\* the store holds was deleted
search(col, live, query, top_k, provider_ok) ==
    IF ~live THEN Raise("Collection does not exist")
    ELSE IF ~CollectionAccepts(col, <<_get_query_embedding(query, provider_ok)>>)
    THEN Raise(DimensionMismatch)
    ELSE Return(VectorStoreSearch(col, query, top_k, provider_ok))

\* get_full_context, collection.get(where={"original_document_id": id}, limit=1):
\* the records the one returned is taken from (Chroma does not say which)
Matches(col, original_document_id) ==
    {i \in 1..Len(col) :
        Get(col[i].metadata, "original_document_id", NoneV) = StrV(original_document_id)}

DocumentNotFound == [error |-> "Document not found"]
\* get_full_context, the dict built from the metadata of the record found
FullContext(metadata) ==
    [full_content |-> Get(metadata, "full_content", StrV("")),
     title |-> Get(metadata, "title", StrV("Unknown")),
     source_file |-> Get(metadata, "source_file", StrV("Unknown")),
     page_number |-> Get(metadata, "page_number", NoneV),
     total_pages |-> Get(metadata, "total_pages", NoneV),
     file_type |-> Get(metadata, "file_type", NoneV)]
\* get_full_context: the values it can return (collection.get on a deleted
\* collection raises, which the except block turns into "not found")
get_full_context(col, live, original_document_id) ==
    IF live /\ Matches(col, original_document_id) # {}
    THEN {FullContext(col[i].metadata) : i \in Matches(col, original_document_id)}
    ELSE {DocumentNotFound}

\* a reset without the try/except around delete_collection
reset_collection_unguarded(col, live) ==
    IF live THEN [collection |-> <<>>, live |-> TRUE, result |-> Return("None")]
    ELSE [collection |-> col, live |-> FALSE,
          result |-> Raise("Collection does not exist")]

\* reset_collection: delete_collection (its failure is swallowed), then
\* get_or_create_collection under the same name
reset_collection(col, live) ==
    [collection |-> <<>>, live |-> TRUE, result |-> Return("None")]

\* add_documents: `if not documents: return`; otherwise collection.add, which
\* raises when the collection was deleted
add_documents(col, live, documents, first_id, provider_ok) ==
    LET records == NewRecords(documents, first_id, provider_ok) IN
    IF documents = <<>> THEN [collection |-> col, result |-> Return("None")]
    ELSE IF ~live
    THEN [collection |-> col, result |-> Raise("Collection does not exist")]
    ELSE IF ~CollectionAccepts(col, [i \in 1..Len(records) |-> records[i].embedding])
    THEN [collection |-> col, result |-> Raise(DimensionMismatch)]
    ELSE [collection |-> col \o records, result |-> Return("None")]

----------------------------------------------------------------------------
(* search_knowledge_base (tools.py) *)

\* top_k of the remote request and of the local fallback
RemoteTopK == 3
LocalTopK == 3

NoInformation ==
    <<"No relevant information found in the knowledge base. The user may need to upload documents first.">>

\* one block of the context: f"[Source: {source}{page_info}]\n{content}"
ContextBlock(result) ==
    LET source == Get(result, "source_file", StrV("Unknown"))
        page == Get(result, "page_number", StrV(""))
        content == Get(result, "content", StrV(""))
        page_info == IF Truthy(page) THEN <<" (Page ">> \o Fmt(page) \o <<")">> ELSE <<>>
    IN <<"[Source: ">> \o Fmt(source) \o page_info \o <<"]\n">> \o Fmt(content)
ContextBlocks(results) == [i \in 1..Len(results) |-> ContextBlock(results[i])]

\* the local path without the `if not results` test
LocalContextUnchecked(results) ==
    Join(ContextBlocks(results), <<"\n\n---\n\n">>)

\* search_knowledge_base after response.json(): the value returned for `results`
RemoteContext(results) ==
    IF results = <<>> THEN NoInformation
    ELSE Join(ContextBlocks(results), <<"\n\n---\n\n">>)

\* _search_local_knowledge_base after vector_store.search: the value returned
LocalContext(results) ==
    IF results = <<>> THEN NoInformation
    ELSE Join(ContextBlocks(results), <<"\n\n---\n\n">>)

\* a status check that lets client errors through
StatusIsServerError(status_code) == status_code >= 500

\* `response.status_code != 200`
StatusIsFailure(status_code) == status_code # 200

\* _search_local_knowledge_base(query); store_ok: get_vector_store() and the
\* collection query did not raise
_search_local_knowledge_base(col, query, store_ok, provider_ok) ==
    IF store_ok
    THEN Return(LocalContext(VectorStoreSearch(col, query, LocalTopK, provider_ok)))
    ELSE Return(<<"Error searching local knowledge base: ", "store unavailable">>)

KBInit ==
    /\ collection = <<>>
    /\ coll_live = TRUE
    /\ kb_last = [op |-> "none"]
    /\ added = 0
    /\ next_id = 1
    /\ kb_pc = "idle"
    /\ kb_query = ""
    /\ kb_remote = [kind |-> "none"]
    /\ kb_local = [kind |-> "none"]
    /\ kb_result = [kind |-> "none"]

\* VectorStore.add_documents(documents)
AddDocuments(documents, provider_ok) ==
    /\ UNCHANGED <<agent_vars, app_vars, db_vars, lazy_vars>>
    /\ kb_pc \notin {"done", "store_done"}
    /\ Len(collection) + Len(documents) <= MaxDocs
    /\ LET r == add_documents(collection, coll_live, documents, next_id, provider_ok) IN
        /\ collection' = r.collection
        /\ kb_last' = [op |-> "add_documents", result |-> r.result]
        /\ added' = IF r.result.kind = "return" THEN added + Len(documents) ELSE added
        /\ next_id' = next_id + (Len(r.collection) - Len(collection))
    /\ UNCHANGED <<coll_live, kb_pc, kb_query, kb_remote, kb_local, kb_result>>

\* VectorStore.reset_collection(); ids of a dropped collection are never seen
\* again, so fresh ids may restart
ResetCollection ==
    /\ UNCHANGED <<agent_vars, app_vars, db_vars, lazy_vars>>
    /\ kb_pc \notin {"done", "store_done"}
    /\ LET r == reset_collection(collection, coll_live) IN
        /\ collection' = r.collection
        /\ coll_live' = r.live
        /\ kb_last' = [op |-> "reset_collection", result |-> r.result,
                       before |-> IF ~coll_live THEN "nonexistent"
                                  ELSE IF collection = <<>> THEN "empty"
                                  ELSE "populated",
                       again |-> kb_last.op = "reset_collection"]
    /\ added' = IF coll_live' THEN 0 ELSE added
    /\ next_id' = 1
    /\ UNCHANGED <<kb_pc, kb_query, kb_remote, kb_local, kb_result>>

\* Another client of the same database directory (the VectorStore of the
\* other process: main.py and tools.py construct one each) deletes the
\* collection; the records go with it
CollectionDropped ==
    /\ UNCHANGED <<agent_vars, app_vars, db_vars, lazy_vars>>
    /\ kb_pc \notin {"done", "store_done"}
    /\ coll_live
    /\ coll_live' = FALSE
    /\ collection' = <<>>
    /\ kb_last' = [op |-> "dropped"]
    /\ added' = 0
    /\ next_id' = 1
    /\ UNCHANGED <<kb_pc, kb_query, kb_remote, kb_local, kb_result>>

\* VectorStore.search(query, top_k), called on the store
StoreSearch(query, top_k, provider_ok) ==
    /\ UNCHANGED <<agent_vars, app_vars, db_vars, lazy_vars>>
    /\ kb_pc = "idle"
    /\ kb_pc' = "store_done"
    /\ kb_query' = query
    /\ kb_local' = [kind |-> "search", top_k |-> top_k, provider_ok |-> provider_ok]
    /\ kb_result' = search(collection, coll_live, query, top_k, provider_ok)
    /\ UNCHANGED <<collection, coll_live, kb_last, added, next_id, kb_remote>>

\* VectorStore.get_full_context(original_document_id)
GetFullContext(original_document_id) ==
    /\ UNCHANGED <<agent_vars, app_vars, db_vars, lazy_vars>>
    /\ kb_pc = "idle"
    /\ kb_pc' = "store_done"
    /\ kb_query' = original_document_id
    /\ kb_local' = [kind |-> "get_full_context"]
    /\ \E value \in get_full_context(collection, coll_live, original_document_id) :
           kb_result' = Return(value)
    /\ UNCHANGED <<collection, coll_live, kb_last, added, next_id, kb_remote>>

\* search_knowledge_base(query) up to requests.post
SearchStart(query) ==
    /\ UNCHANGED <<agent_vars, app_vars, db_vars, lazy_vars>>
    /\ kb_pc = "idle"
    /\ kb_query' = query
    /\ kb_pc' = "remote"
    /\ kb_remote' = [kind |-> "none"]
    /\ kb_local' = [kind |-> "none"]
    /\ kb_result' = [kind |-> "pending"]
    /\ UNCHANGED <<collection, coll_live, kb_last, added, next_id>>

\* the remote answers with a status the code takes for a failure: fall back
RemoteFailureStatus(status_code) ==
    /\ UNCHANGED <<agent_vars, app_vars, db_vars, lazy_vars>>
    /\ kb_pc = "remote"
    /\ StatusIsFailure(status_code)
    /\ kb_remote' = [kind |-> "status", code |-> status_code]
    /\ kb_pc' = "local"
    /\ UNCHANGED <<collection, coll_live, kb_last, added, next_id, kb_query, kb_local, kb_result>>

\* the remote answers with a status the code accepts and a JSON object
RemoteAnswers(status_code, data) ==
    /\ UNCHANGED <<agent_vars, app_vars, db_vars, lazy_vars>>
    /\ kb_pc = "remote"
    /\ ~StatusIsFailure(status_code)
    /\ kb_remote' = [kind |-> "status", code |-> status_code, json |-> "dict",
                     results |-> data.results]
    /\ kb_result' = Return(RemoteContext(data.results))
    /\ kb_pc' = "done"
    /\ UNCHANGED <<collection, coll_live, kb_last, added, next_id, kb_query, kb_local>>

\* an except clause that takes every exception for a network failure
ExceptFallsBackAlways(exception) == TRUE

\* `except requests.exceptions.RequestException`: the exceptions that lead to
\* the local fallback; the others reach `except Exception`
ExceptFallsBack(exception) ==
    exception \in RequestExceptions \cup {"requests.JSONDecodeError"}

\* the remote answers 200 with JSON that is not an object: data.get raises
\* AttributeError, caught by `except Exception`
RemoteAnswersNotDict ==
    /\ UNCHANGED <<agent_vars, app_vars, db_vars, lazy_vars>>
    /\ kb_pc = "remote"
    /\ kb_remote' = [kind |-> "status", code |-> 200, json |-> "list",
                     raised |-> "AttributeError"]
    /\ IF ExceptFallsBack("AttributeError")
       THEN /\ kb_pc' = "local"
            /\ UNCHANGED kb_result
       ELSE /\ kb_pc' = "done"
            /\ kb_result' = Return(<<"Error searching knowledge base: ",
                                     "'list' object has no attribute 'get'">>)
    /\ UNCHANGED <<collection, coll_live, kb_last, added, next_id, kb_query, kb_local>>

\* the remote answers 200 with a body that is not JSON: response.json() raises
\* JSONDecodeError, which is a RequestException in requests >= 2.27 (fall back)
\* and a plain ValueError before (error string)
RemoteAnswersInvalidJson(is_request_exception) ==
    /\ UNCHANGED <<agent_vars, app_vars, db_vars, lazy_vars>>
    /\ kb_pc = "remote"
    /\ kb_remote' = [kind |-> "status", code |-> 200, json |-> "invalid",
                     raised |-> IF is_request_exception THEN "requests.JSONDecodeError"
                                ELSE "json.JSONDecodeError"]
    /\ IF ExceptFallsBack(kb_remote'.raised)
       THEN /\ kb_pc' = "local"
            /\ UNCHANGED kb_result
       ELSE /\ kb_pc' = "done"
            /\ kb_result' = Return(<<"Error searching knowledge base: ",
                                     "Expecting value">>)
    /\ UNCHANGED <<collection, coll_live, kb_last, added, next_id, kb_query, kb_local>>

\* requests.post raises a RequestException (the 30 s timeout, no connection)
RemoteRequestException(what) ==
    /\ UNCHANGED <<agent_vars, app_vars, db_vars, lazy_vars>>
    /\ kb_pc = "remote"
    /\ ExceptFallsBack(what)
    /\ kb_remote' = [kind |-> "request_exception", what |-> what]
    /\ kb_pc' = "local"
    /\ UNCHANGED <<collection, coll_live, kb_last, added, next_id, kb_query, kb_local, kb_result>>

\* the fallback: _search_local_knowledge_base(query), whose value is returned
LocalSearch(store_ok, provider_ok) ==
    /\ UNCHANGED <<agent_vars, app_vars, db_vars, lazy_vars>>
    /\ kb_pc = "local"
    /\ search(collection, coll_live, kb_query, LocalTopK, provider_ok).kind = "raise"
           => ~store_ok
    /\ kb_local' = [kind |-> "searched", store_ok |-> store_ok,
                    provider_ok |-> provider_ok,
                    times |-> IF kb_local.kind = "searched" THEN kb_local.times + 1 ELSE 1,
                    hits |-> IF store_ok
                             THEN Len(VectorStoreSearch(collection, kb_query, LocalTopK,
                                                        provider_ok))
                             ELSE 0]
    /\ kb_result' = _search_local_knowledge_base(collection, kb_query, store_ok, provider_ok)
    /\ kb_pc' = "done"
    /\ UNCHANGED <<collection, coll_live, kb_last, added, next_id, kb_query, kb_remote>>

\* the caller has the returned value; the call is over
SearchReturn ==
    /\ UNCHANGED <<agent_vars, app_vars, db_vars, lazy_vars>>
    /\ kb_pc \in {"done", "store_done"}
    /\ kb_pc' = "idle"
    /\ kb_query' = ""
    /\ kb_remote' = [kind |-> "none"]
    /\ kb_local' = [kind |-> "none"]
    /\ kb_result' = [kind |-> "none"]
    /\ UNCHANGED <<collection, coll_live, kb_last, added, next_id>>

KBNext ==
    \/ \E documents \in DocLists :
         \E provider_ok \in [1..Len(documents) -> BOOLEAN] :
            AddDocuments(documents, provider_ok)
    \/ ResetCollection
    \/ CollectionDropped
    \/ \E query \in Queries, top_k \in TopKs, provider_ok \in BOOLEAN :
         StoreSearch(query, top_k, provider_ok)
    \/ \E id \in DocumentIds : GetFullContext(id)
    \/ \E query \in Queries : SearchStart(query)
    \/ \E status_code \in FailureStatus \cup {200} : RemoteFailureStatus(status_code)
    \/ \E status_code \in FailureStatus \cup {200}, data \in RemoteJson :
         RemoteAnswers(status_code, data)
    \/ RemoteAnswersNotDict
    \/ \E b \in BOOLEAN : RemoteAnswersInvalidJson(b)
    \/ \E what \in RequestExceptions : RemoteRequestException(what)
    \/ \E store_ok \in BOOLEAN, provider_ok \in BOOLEAN : LocalSearch(store_ok, provider_ok)
    \/ SearchReturn

----------------------------------------------------------------------------
(* The Streamlit app: one BookingAssistant per browser session *)

Sessions == {"s1", "s2"}
\* bound: chat calls per assistant object
MaxSessionTurns == 2
\* init_session_state: BookingAssistant(max_history=20)
SessionMaxHistory == 20

\* what the model answers in these sessions
SessionResponses ==
    { Resp(TRUE, <<TextPart("hi")>>, 1, FALSE, "hi"),
      Resp(TRUE, <<>>, 3, FALSE, ""),
      Resp(TRUE, <<CallPart("search_knowledge_base", "args1")>>, 1, TRUE, "") }

\* BookingAssistant.__init__: the fields of a new object (and the position and
\* locals of the chat call running on it)
BookingAssistant(m) ==
    [max_history |-> m, chat_history |-> <<>>, chat_session |-> None,
     pc |-> "idle", user_message |-> <<>>, sent |-> NoMessage, ncalls |-> 0]

\* get_assistant(): every caller gets the one module-level object
SingletonInstance(objects) == 1

\* BookingAssistant(...) in init_session_state: a new object
FreshInstance(objects) == Len(objects) + 1

\* chat and clear_history on the object `a`
ChatStartOn(a) ==
    [a EXCEPT !.chat_session = LazyStartChat(@),
              !.user_message = UserMessage(a.ncalls + 1),
              !.sent = [kind |-> "user", content |-> UserMessage(a.ncalls + 1)],
              !.pc = "awaiting_model",
              !.ncalls = @ + 1]
ModelCallOn(a, r, result) ==
    LET fc == r.parts[FirstFunctionCall(r.parts)] IN
    [a EXCEPT !.chat_session = SendMessageReturned(@, a.sent),
              !.sent = FunctionResponse(fc.name,
                                        ExecuteToolReturned(fc.name, result).value)]
ModelFinalOn(a, r) ==
    LET assistant_message == _extract_response_text(r) IN
    [a EXCEPT !.chat_session = SendMessageReturned(@, a.sent),
              !.chat_history = _trim_history(@ \o Turn(a.user_message, assistant_message),
                                             a.max_history),
              !.pc = "idle"]
ModelRaisesOn(a) == [a EXCEPT !.pc = "idle"]
ClearHistoryOn(a) == [a EXCEPT !.chat_history = <<>>, !.chat_session = None]

AppInit ==
    /\ assistants = <<>>
    /\ session_state = [s \in Sessions |-> 0]
    /\ actor = "none"

\* init_session_state in session s
InitSessionState(s) ==
    /\ UNCHANGED <<agent_vars, kb_vars, db_vars, lazy_vars>>
    /\ session_state[s] = 0
    /\ LET i == FreshInstance(assistants) IN
        /\ assistants' = IF i > Len(assistants)
                         THEN Append(assistants, BookingAssistant(SessionMaxHistory))
                         ELSE assistants
        /\ session_state' = [session_state EXCEPT ![s] = i]
    /\ actor' = s

\* a step of session s on its assistant, which becomes `b`
SessionStep(s, b) ==
    /\ UNCHANGED <<agent_vars, kb_vars, db_vars, lazy_vars>>
    /\ assistants' = [assistants EXCEPT ![session_state[s]] = b]
    /\ actor' = s
    /\ UNCHANGED session_state

\* st.session_state.assistant.chat(prompt) in session s, step by step
SessionChatStart(s) ==
    /\ session_state[s] # 0
    /\ assistants[session_state[s]].pc = "idle"
    /\ assistants[session_state[s]].ncalls < MaxSessionTurns
    /\ SessionStep(s, ChatStartOn(assistants[session_state[s]]))
SessionModelCall(s, r, result) ==
    /\ session_state[s] # 0
    /\ assistants[session_state[s]].pc = "awaiting_model"
    /\ r.cands /\ FirstFunctionCall(r.parts) # 0
    /\ SessionStep(s, ModelCallOn(assistants[session_state[s]], r, result))
SessionModelFinal(s, r) ==
    /\ session_state[s] # 0
    /\ assistants[session_state[s]].pc = "awaiting_model"
    /\ r.cands /\ FirstFunctionCall(r.parts) = 0
    /\ SessionStep(s, ModelFinalOn(assistants[session_state[s]], r))
SessionModelRaises(s) ==
    /\ session_state[s] # 0
    /\ assistants[session_state[s]].pc = "awaiting_model"
    /\ SessionStep(s, ModelRaisesOn(assistants[session_state[s]]))
\* st.session_state.assistant.clear_history() in session s
SessionClearHistory(s) ==
    /\ session_state[s] # 0
    /\ assistants[session_state[s]].pc = "idle"
    /\ SessionStep(s, ClearHistoryOn(assistants[session_state[s]]))

AppNext ==
    \E s \in Sessions :
        \/ InitSessionState(s)
        \/ SessionChatStart(s)
        \/ \E r \in SessionResponses, result \in ToolResults : SessionModelCall(s, r, result)
        \/ \E r \in SessionResponses : SessionModelFinal(s, r)
        \/ SessionModelRaises(s)
        \/ SessionClearHistory(s)

----------------------------------------------------------------------------
(* The booking store: create_booking (tools.py) and POST /booking (main.py) *)

\* bound: rows of the bookings table
MaxRows == 3

\* the callers that share booking.db: a chat session's create_booking tool
\* call and the /booking endpoint of the API process
Callers == {"tool", "endpoint"}

\* Python's None passed for an argument
NoneArg == "None"
\* arguments of a call; the second customer is the first under a new name and
\* phone, the last call has no booking_type
BookingArg(n, e, p, t) ==
    [name |-> n, email |-> e, phone |-> p, booking_type |-> t,
     date |-> "2025-06-01", time |-> "19:30"]
BookingArgs ==
    { BookingArg("Ann", "ann@x", "111", "Movie"),
      BookingArg("Anna", "ann@x", "112", "Movie"),
      BookingArg("Bob", "bob@x", "222", "Movie"),
      BookingArg("Bob", "bob@x", "222", NoneArg) }

\* the status a caller stores: the tool writes the literal 'confirmed', the
\* endpoint booking.status, "pending" unless the request sets it
StatusOf(caller) == IF caller = "tool" THEN "confirmed" ELSE "pending"

\* init_booking_db: both tables exist and are empty
EmptyDb ==
    [customers |-> <<>>, bookings |-> <<>>,
     sqlite_sequence |-> [customers |-> 0, bookings |-> 0]]

\* outcome of one SQL statement on the database d
StmtOk(d, lastrowid) == [ok |-> TRUE, db |-> d, lastrowid |-> lastrowid]
StmtFails(d, error) == [ok |-> FALSE, db |-> d, error |-> error]

\* SELECT customer_id FROM customers WHERE email = ?; fetchone(): 0 for None
SelectCustomerId(d, email) ==
    LET hits == {i \in 1..Len(d.customers) : d.customers[i].email = email} IN
    IF hits = {} THEN 0
    ELSE d.customers[CHOOSE i \in hits : \A j \in hits : i <= j].customer_id

\* an UPDATE without its WHERE clause
UpdateAllCustomers(d, customer_id, name, phone) ==
    StmtOk([d EXCEPT !.customers =
               [i \in 1..Len(d.customers) |->
                   [d.customers[i] EXCEPT !.name = name, !.phone = phone]]], 0)

\* UPDATE customers SET name = ?, phone = ? WHERE customer_id = ?
UpdateCustomer(d, customer_id, name, phone) ==
    IF name = NoneArg
    THEN StmtFails(d, "NOT NULL constraint failed: customers.name")
    ELSE StmtOk([d EXCEPT !.customers =
                    [i \in 1..Len(d.customers) |->
                        IF d.customers[i].customer_id = customer_id
                        THEN [d.customers[i] EXCEPT !.name = name, !.phone = phone]
                        ELSE d.customers[i]]], 0)

\* an insert into a customers table whose email column is not UNIQUE
InsertCustomerNoUnique(d, name, email, phone) ==
    StmtOk([d EXCEPT
               !.customers = Append(@, [customer_id |-> d.sqlite_sequence.customers + 1,
                                        name |-> name, email |-> email, phone |-> phone]),
               !.sqlite_sequence.customers = @ + 1],
           d.sqlite_sequence.customers + 1)

\* INSERT INTO customers (name, email, phone) VALUES (?, ?, ?), with the
\* table's NOT NULL and UNIQUE constraints and its AUTOINCREMENT key
InsertCustomer(d, name, email, phone) ==
    LET id == d.sqlite_sequence.customers + 1 IN
    IF name = NoneArg
    THEN StmtFails(d, "NOT NULL constraint failed: customers.name")
    ELSE IF email = NoneArg
    THEN StmtFails(d, "NOT NULL constraint failed: customers.email")
    ELSE IF \E i \in 1..Len(d.customers) : d.customers[i].email = email
    THEN StmtFails(d, "UNIQUE constraint failed: customers.email")
    ELSE StmtOk([d EXCEPT
                    !.customers = Append(@, [customer_id |-> id, name |-> name,
                                             email |-> email, phone |-> phone]),
                    !.sqlite_sequence.customers = id], id)

\* INSERT INTO bookings (customer_id, booking_type, date, time, status,
\* created_at) VALUES (...); created_at, datetime('now'), is left out
InsertBooking(d, customer_id, booking_type, date, time, status) ==
    LET id == d.sqlite_sequence.bookings + 1 IN
    IF booking_type = NoneArg
    THEN StmtFails(d, "NOT NULL constraint failed: bookings.booking_type")
    ELSE IF date = NoneArg \/ time = NoneArg \/ status = NoneArg
    THEN StmtFails(d, "NOT NULL constraint failed: bookings")
    ELSE StmtOk([d EXCEPT
                    !.bookings = Append(@, [id |-> id, customer_id |-> customer_id,
                                            booking_type |-> booking_type,
                                            date |-> date, time |-> time,
                                            status |-> status]),
                    !.sqlite_sequence.bookings = id], id)

\* an exit of the `with` block that keeps what the failed transaction wrote
RollbackKeeps(committed, view) == view

\* conn.commit() publishes the transaction's view of the database; the exit
\* of `with sqlite3.connect(...)` on an exception rolls it back
Commit(committed, view) == view
Rollback(committed, view) == committed

\* what a call gives its caller: the tool returns a string in both cases, the
\* endpoint returns a BookingResponse or raises HTTPException(500)
BookingCreated(caller, args, customer_id, booking_id) ==
    IF caller = "tool"
    THEN Return(<<"Booking created successfully!", "Booking ID: ", booking_id,
                  "Customer: ", args.name, "Type: ", args.booking_type>>)
    ELSE Return([booking_id |-> booking_id, customer_id |-> customer_id,
                 message |-> "Booking stored successfully"])
BookingFailed(caller, error) ==
    IF caller = "tool" THEN Return(<<"Error creating booking: ", error>>)
    ELSE Raise(<<"Failed to create booking: ", error>>)

\* a connection outside a transaction; a caller that is not in a call
NoTx == [open |-> FALSE, view |-> EmptyDb]
IdleCall ==
    [pc |-> "idle", args |-> BookingArg("", "", "", ""), row |-> 0, tx |-> NoTx,
     customer_id |-> 0, booking_id |-> 0, ended |-> "", error |-> "",
     result |-> [kind |-> "none"], met |-> {}]
\* the callers inside a call
InProgress == {c \in Callers : calls[c].pc \notin {"idle", "returned"}}

BookingInit ==
    /\ db = EmptyDb
    /\ db_lock = "none"
    /\ calls = [c \in Callers |-> IdleCall]

\* the call of caller c ends in its except block: the `with` exit has rolled
\* the transaction back, which also gives up the write lock
CallFails(c, error) ==
    /\ db' = IF calls[c].tx.open THEN Rollback(db, calls[c].tx.view) ELSE db
    /\ db_lock' = IF db_lock = c THEN "none" ELSE db_lock
    /\ calls' = [calls EXCEPT ![c] =
                    [IdleCall EXCEPT !.pc = "returned", !.args = calls[c].args,
                                     !.met = calls[c].met,
                                     !.ended = "error", !.error = error,
                                     !.result = BookingFailed(c, error)]]

\* create_booking(...) is called: sqlite3.connect(DB_PATH)
CallStart(c, args) ==
    /\ UNCHANGED <<agent_vars, kb_vars, app_vars, lazy_vars>>
    /\ calls[c].pc = "idle"
    /\ Len(db.bookings) + Cardinality(InProgress) < MaxRows
    /\ calls' = [o \in Callers |->
                    IF o = c
                    THEN [IdleCall EXCEPT !.pc = "select", !.args = args,
                                          !.met = {calls[x].args.email : x \in InProgress}]
                    ELSE IF o \in InProgress
                    THEN [calls[o] EXCEPT !.met = @ \cup {args.email}]
                    ELSE calls[o]]
    /\ UNCHANGED <<db, db_lock>>

\* the SELECT and fetchone(): read outside a transaction, from the committed
\* database
SelectCustomer(c) ==
    /\ UNCHANGED <<agent_vars, kb_vars, app_vars, lazy_vars>>
    /\ calls[c].pc = "select"
    /\ calls' = [calls EXCEPT ![c].pc = "customer",
                              ![c].row = SelectCustomerId(db, calls[c].args.email)]
    /\ UNCHANGED <<db, db_lock>>

\* `if row:` UPDATE, else INSERT INTO customers. The first writing statement
\* opens the transaction (implicit BEGIN) and takes the write lock, which one
\* connection holds at a time
WriteCustomer(c) ==
    /\ UNCHANGED <<agent_vars, kb_vars, app_vars, lazy_vars>>
    /\ calls[c].pc = "customer"
    /\ db_lock = "none"
    /\ LET a == calls[c].args
           row == calls[c].row
           r == IF row # 0 THEN UpdateCustomer(db, row, a.name, a.phone)
                ELSE InsertCustomer(db, a.name, a.email, a.phone)
       IN IF r.ok
          THEN /\ calls' = [calls EXCEPT
                               ![c].pc = "booking",
                               ![c].tx = [open |-> TRUE, view |-> r.db],
                               ![c].customer_id = IF row # 0 THEN row ELSE r.lastrowid]
               /\ db_lock' = c
               /\ UNCHANGED db
          ELSE CallFails(c, r.error)

\* another connection holds the write lock for longer than the connection's
\* busy timeout (sqlite3.connect's default, 5 s): OperationalError
LockTimeout(c) ==
    /\ UNCHANGED <<agent_vars, kb_vars, app_vars, lazy_vars>>
    /\ calls[c].pc = "customer"
    /\ db_lock \notin {"none", c}
    /\ CallFails(c, "database is locked")

\* INSERT INTO bookings, inside the open transaction
WriteBooking(c) ==
    /\ UNCHANGED <<agent_vars, kb_vars, app_vars, lazy_vars>>
    /\ calls[c].pc = "booking"
    /\ LET a == calls[c].args
           r == InsertBooking(calls[c].tx.view, calls[c].customer_id, a.booking_type,
                              a.date, a.time, StatusOf(c))
       IN IF r.ok
          THEN /\ calls' = [calls EXCEPT ![c].pc = "commit",
                                          ![c].tx.view = r.db,
                                          ![c].booking_id = r.lastrowid]
               /\ UNCHANGED <<db, db_lock>>
          ELSE CallFails(c, r.error)

\* conn.commit(), the end of the `with` block, and the return
CommitBooking(c) ==
    /\ UNCHANGED <<agent_vars, kb_vars, app_vars, lazy_vars>>
    /\ calls[c].pc = "commit"
    /\ db' = Commit(db, calls[c].tx.view)
    /\ db_lock' = "none"
    /\ calls' = [calls EXCEPT ![c] =
                    [IdleCall EXCEPT
                        !.pc = "returned", !.args = calls[c].args, !.ended = "created",
                        !.met = calls[c].met,
                        !.customer_id = calls[c].customer_id,
                        !.booking_id = calls[c].booking_id,
                        !.result = BookingCreated(c, calls[c].args, calls[c].customer_id,
                                                  calls[c].booking_id)]]

\* the caller has the value; the call is over
CallReturn(c) ==
    /\ UNCHANGED <<agent_vars, kb_vars, app_vars, lazy_vars>>
    /\ calls[c].pc = "returned"
    /\ calls' = [calls EXCEPT ![c] = IdleCall]
    /\ UNCHANGED <<db, db_lock>>

BookingNext ==
    \E c \in Callers :
        \/ \E args \in BookingArgs : CallStart(c, args)
        \/ SelectCustomer(c)
        \/ WriteCustomer(c)
        \/ LockTimeout(c)
        \/ WriteBooking(c)
        \/ CommitBooking(c)
        \/ CallReturn(c)

----------------------------------------------------------------------------
(* The lazy singletons: get_vector_store (tools.py), get_assistant (agent.py) *)

\* the threads that may call a getter for the first time together (Streamlit
\* runs each session's script in a thread of its own)
Threads == {"t1", "t2"}
Getters == {"get_vector_store", "get_assistant"}

\* the module global a getter reads and assigns
Global(getter) ==
    IF getter = "get_vector_store" THEN _vector_store ELSE _assistant_instance

IdleThread == [pc |-> "idle", getter |-> "", made |-> 0]

LazyInit ==
    /\ _vector_store = 0
    /\ _assistant_instance = 0
    /\ constructed = [g \in Getters |-> 0]
    /\ threads = [t \in Threads |-> IdleThread]
    /\ returned = [g \in Getters |-> {}]

\* a thread calls the getter
GetterCall(t, getter) ==
    /\ UNCHANGED <<agent_vars, kb_vars, app_vars, db_vars>>
    /\ threads[t].pc = "idle"
    /\ threads' = [threads EXCEPT ![t] = [pc |-> "test", getter |-> getter, made |-> 0]]
    /\ UNCHANGED <<_vector_store, _assistant_instance, constructed, returned>>

\* `if _vector_store is None:` / `if _assistant_instance is None:`
TestNone(t) ==
    /\ UNCHANGED <<agent_vars, kb_vars, app_vars, db_vars>>
    /\ threads[t].pc = "test"
    /\ threads' = [threads EXCEPT ![t].pc =
                      IF Global(threads[t].getter) = 0 THEN "construct" ELSE "return"]
    /\ UNCHANGED <<_vector_store, _assistant_instance, constructed, returned>>

\* VectorStore() / BookingAssistant(): a new instance
Construct(t) ==
    /\ UNCHANGED <<agent_vars, kb_vars, app_vars, db_vars>>
    /\ threads[t].pc = "construct"
    /\ constructed' = [constructed EXCEPT ![threads[t].getter] = @ + 1]
    /\ threads' = [threads EXCEPT ![t].pc = "assign",
                                  ![t].made = constructed'[threads[t].getter]]
    /\ UNCHANGED <<_vector_store, _assistant_instance, returned>>

\* the assignment to the global
AssignGlobal(t) ==
    /\ UNCHANGED <<agent_vars, kb_vars, app_vars, db_vars>>
    /\ threads[t].pc = "assign"
    /\ IF threads[t].getter = "get_vector_store"
       THEN _vector_store' = threads[t].made /\ UNCHANGED _assistant_instance
       ELSE _assistant_instance' = threads[t].made /\ UNCHANGED _vector_store
    /\ threads' = [threads EXCEPT ![t].pc = "return"]
    /\ UNCHANGED <<constructed, returned>>

\* `return _vector_store` / `return _assistant_instance`: the global as it is now
GetterReturn(t) ==
    /\ UNCHANGED <<agent_vars, kb_vars, app_vars, db_vars>>
    /\ threads[t].pc = "return"
    /\ returned' = [returned EXCEPT ![threads[t].getter] =
                       @ \cup {Global(threads[t].getter)}]
    /\ threads' = [threads EXCEPT ![t] = IdleThread]
    /\ UNCHANGED <<_vector_store, _assistant_instance, constructed>>

LazyNext ==
    \E t \in Threads :
        \/ \E getter \in Getters : GetterCall(t, getter)
        \/ TestNone(t)
        \/ Construct(t)
        \/ AssignGlobal(t)
        \/ GetterReturn(t)

Init == AgentInit /\ KBInit /\ AppInit /\ BookingInit /\ LazyInit
Next == AgentNext
Spec == Init /\ [][Next]_vars

\* the retrieval service beside an idle assistant
KBSpecInit == Init /\ max_history = MaxM
KBSpec == KBSpecInit /\ [][KBNext]_vars

\* the sessions of the app, each with its assistant
AppSpec == KBSpecInit /\ [][AppNext]_vars

\* the callers of create_booking on the shared database
BookingSpec == KBSpecInit /\ [][BookingNext]_vars

\* the threads that call the lazy getters
LazySpec == KBSpecInit /\ [][LazyNext]_vars

FairSpec ==
    /\ Spec
    /\ WF_vars(\/ \E e \in ProviderErrors : ModelRaises(e)
               \/ \E r \in Responses :
                    \/ ModelRespondsNoCandidates(r) \/ ModelRespondsFinal(r)
                    \/ ModelRespondsCallArgsFail(r) \/ ModelRespondsUnknownTool(r)
                    \/ ModelRespondsToolStart(r))
    /\ WF_vars(\/ \E result \in ToolResults : ToolReturns(result)
               \/ \E detail \in ToolErrors : ToolRaises(detail))

----------------------------------------------------------------------------
(* Properties of the conversation loop *)

Min(S) == CHOOSE x \in S : \A y \in S : x <= y
Suffix(s, n) == SubSeq(s, Len(s) - n + 1, Len(s))
IsSuffixOf(s, t) == Len(s) <= Len(t) /\ s = Suffix(t, Len(s))
CallIdx(parts) == {i \in 1..Len(parts) : parts[i].name # ""}
HasResponse == response.kind = "response"
HasCall == function_call.name # ""

\* C1: after N chat turns with max_history = M, chat_history has length
\* min(2N, 2M) and is the last min(2N, 2M) entries of the transcript of the N
\* turns, in order.  (N counts the calls that ran to their final reply.)
C1_HistoryIsTranscriptSuffix ==
    pc = "idle" =>
        LET N == Len(recorded) \div 2
            kept == Min({2 * N, 2 * max_history})
        IN /\ Len(chat_history) = kept
           /\ chat_history = Suffix(recorded, kept)

\* C2: between chat calls, for every max_history >= 0, chat_history has at most
\* 2 * max_history entries, and it is what is left of the recorded entries after
\* dropping the oldest ones.
C2_HistoryBound ==
    pc = "idle" =>
        /\ Len(chat_history) <= 2 * max_history
        /\ IsSuffixOf(chat_history, recorded)

\* C3: chat never raises: whatever the provider and the tools do, a chat call
\* that has ended has returned a string.
C3_ChatReturnsString ==
    /\ outcome.kind # "raise"
    /\ (pc = "idle" /\ ncalls > 0) =>
           /\ outcome.kind = "return"
           /\ outcome.value \in Seq(STRING)
           /\ outcome.value # <<>>

\* C3 witness: the provider answered without candidates and chat returned its
\* error reply
C3_Witness ==
    /\ pc = "idle"
    /\ HasResponse /\ ~response.cands
    /\ outcome = Return(<<"I encountered an error: ", "list index out of range",
                          ". Please try again or rephrase your request.">>)

\* C4: of a response with a function-call part, exactly one part is dispatched,
\* the first function-call part in part order; no other part's tool is invoked,
\* and no reply is ever extracted from such a response.
C4_FirstCallOnly ==
    /\ (HasResponse /\ CallIdx(response.parts) # {}) =>
           /\ dispatched = <<Min(CallIdx(response.parts))>>
           /\ function_call = response.parts[Min(CallIdx(response.parts))]
           /\ \A i \in 1..Len(invoked) : invoked[i].name = function_call.name
           /\ Len(invoked) <= 1
    /\ (HasResponse /\ CallIdx(response.parts) = {}) => dispatched = <<>>
    /\ reply_src.kind = "response" => CallIdx(reply_src.parts) = {}

\* C4 witness: text, then two function calls; the first call's tool has run
\* and its result is on its way to the model
C4_Witness ==
    /\ HasResponse
    /\ Cardinality(CallIdx(response.parts)) = 2
    /\ response.parts[1].text # ""
    /\ dispatched = <<2>>
    /\ tool_outcome.kind = "returned"
    /\ pc = "awaiting_model"

\* C5: each extracted function call naming a registered tool has that tool
\* invoked exactly once with the call's arguments; the string the tool returned
\* is the content of the message sent next, a function response with the same
\* name; no request to the model is outstanding while the tool runs.
C5_ToolInvokedOnce ==
    (HasCall /\ function_call.name \in TOOL_MAP) =>
        /\ invoked = <<[name |-> function_call.name, args |-> function_call.args]>>
        /\ tool_outcome.kind \in {"running", "returned", "raised"}
        /\ pc = "tool_running" <=> tool_outcome.kind = "running"
        /\ tool_outcome.kind = "returned" =>
               /\ tool_result = <<tool_outcome.value>>
               /\ sent = FunctionResponse(function_call.name, <<tool_outcome.value>>)

\* C6: a function call whose name is not in TOOL_MAP makes dispatch return
\* "Error: Unknown tool '<name>'" with no tool invoked and no exception, and that
\* string is what is sent back to the model.
C6_UnknownTool ==
    (HasCall /\ function_call.name \notin TOOL_MAP) =>
        /\ tool_outcome.kind = "unknown"
        /\ invoked = <<>>
        /\ tool_result = <<"Error: Unknown tool '", function_call.name, "'">>
        /\ sent = FunctionResponse(function_call.name, tool_result)

\* C7: when the invoked tool raises, _execute_tool returns
\* "Error executing <name>: <detail>", which is sent to the model as the
\* function response, and the call goes on to wait for the next model response.
C7_ToolErrorFedBack ==
    [][(tool_outcome.kind = "running" /\ tool_outcome'.kind = "raised") =>
          /\ tool_result' = <<"Error executing ", function_call.name, ": ",
                              tool_outcome'.detail>>
          /\ sent' = FunctionResponse(function_call.name, tool_result')
          /\ pc' = "awaiting_model"
          /\ outcome' = outcome]_vars

\* C7 witness: a tool has raised and its error string is the pending function response
C7_Witness ==
    /\ tool_outcome.kind = "raised"
    /\ pc = "awaiting_model"
    /\ sent = FunctionResponse(function_call.name,
                               <<"Error executing ", function_call.name, ": ",
                                 "tool failed">>)

\* C8: every chat call terminates with a reply, whatever the model responds.
C8_ChatTerminates == (pc # "idle") ~> (pc = "idle")

\* C11: clear_history empties chat_history and sets the dialogue handle to
\* None; chat creates a handle only when there is none, and that handle starts
\* with an empty provider history; every other chat call keeps the handle it
\* finds, with the history the provider has for it, and the handle stays in
\* place for the whole call.
C11_LazyHandle ==
    [][/\ (pc = "idle" /\ pc' = "idle") =>
              (chat_history' = <<>> /\ chat_session' = None)
       /\ (pc = "idle" /\ pc' # "idle") =>
              IF chat_session = None
              THEN chat_session' # None /\ chat_session'.history = <<>>
              ELSE chat_session' = chat_session
       /\ pc # "idle" =>
              /\ chat_session # None /\ chat_session' # None
              /\ \/ chat_session' = chat_session
                 \/ /\ sent.kind = "user"
                    /\ chat_session'.history = Append(chat_session.history, user_message)
      ]_vars

\* C11 witness: the second chat call of a dialogue is waiting for the model on
\* the handle that already holds the first message
C11_Witness ==
    /\ pc = "awaiting_model"
    /\ sent = [kind |-> "user", content |-> UserMessage(2)]
    /\ chat_session # None
    /\ chat_session.history = <<UserMessage(1)>>
    /\ chat_history # <<>>
\* The reply the final response `r` calls for: its non-empty text parts joined
\* by newline, or, when there is none, the apology for its finish_reason.
NonEmptyTexts(parts) ==
    LET idx == {i \in 1..Len(parts) : parts[i].text # ""}
        RECURSIVE InOrder(_)
        InOrder(S) == IF S = {} THEN <<>>
                      ELSE <<<<parts[Min(S)].text>>>> \o InOrder(S \ {Min(S)})
    IN InOrder(idx)
Apology(finish_reason) ==
    IF finish_reason = 3
    THEN <<"I apologize, but I can't respond to that request due to content restrictions.">>
    ELSE IF finish_reason = 12
    THEN <<"I apologize, but I couldn't generate a response. Please try rephrasing your request.">>
    ELSE <<"I apologize, but I couldn't generate a response. Please try again.">>
ExpectedReply(r) ==
    IF NonEmptyTexts(r.parts) # <<>> THEN Join(NonEmptyTexts(r.parts), <<"\n">>)
    ELSE Apology(r.finish_reason)

\* C12: when the final response has no function-call part, the reply is its
\* non-empty text parts joined by newline; when no text can be extracted it is
\* the content-restrictions apology for finish_reason 3, the "try rephrasing"
\* apology for 12 and the "Please try again." apology otherwise, an empty parts
\* list included.
C12_ReplyText ==
    (pc = "idle" /\ reply_src.kind = "response") =>
        outcome = Return(ExpectedReply(reply_src))
\* C13: chat_history is not modified while a turn is in progress: every step
\* that leaves the call in progress leaves chat_history as it was at the start
\* of the call, and the only change a call makes to it is the append of the
\* (user, assistant) pair followed by the trim, made in the step that returns
\* the reply extracted from the final response.
C13_HistoryFrozenInTurn ==
    [][/\ pc' # "idle" => chat_history' = chat_history
       /\ (pc # "idle" /\ chat_history' # chat_history) =>
              /\ pc' = "idle"
              /\ reply_src'.kind = "response"
              /\ outcome'.kind = "return"
              /\ IsSuffixOf(chat_history',
                            chat_history \o Turn(user_message, outcome'.value))
              /\ chat_history'[Len(chat_history')] =
                     [role |-> "assistant", content |-> outcome'.value]
      ]_vars

\* C13 witness: the second call of a session has a tool result on its way to
\* the model and chat_history still holds the first turn only
C13_Witness ==
    /\ pc = "awaiting_model"
    /\ tool_outcome.kind = "returned"
    /\ sent.kind = "function_response"
    /\ ncalls = 2
    /\ chat_history = recorded /\ Len(chat_history) = 2

\* the user has said yes after the assistant showed the booking summary: in a
\* recorded turn, or in the message of the call in progress
UserConfirmed ==
    \E i \in 1..Len(recorded) :
        /\ recorded[i] = [role |-> "assistant", content |-> <<BookingSummary>>]
        /\ \/ \E j \in (i + 1)..Len(recorded) :
                  recorded[j] = [role |-> "user", content |-> Yes]
           \/ pc # "idle" /\ user_message = Yes

\* C15: if the user never gives an affirmative confirmation after the booking
\* summary, create_booking is never invoked in the session, whatever the user
\* types and the model responds.
C15_NoBookingWithoutConfirmation ==
    (\E i \in 1..Len(invoked) : invoked[i].name = "create_booking") => UserConfirmed

\* C16: during a chat call a tool function is invoked only by the dispatch of
\* a function call of the response just received, and it is the function whose
\* name is the call's name, a key of TOOL_MAP; the booking store changes only
\* while create_booking, so invoked, runs; a response without a function-call
\* part ends its turn with no tool invoked, and a turn made of such a response
\* leaves the booking store and the vector index unchanged.
C16_ToolsOnlyThroughDispatch ==
    [][/\ (invoked' # invoked /\ invoked' # <<>>) =>
              /\ pc = "awaiting_model" /\ pc' = "tool_running"
              /\ CallIdx(response'.parts) # {}
              /\ function_call' = response'.parts[Min(CallIdx(response'.parts))]
              /\ function_call'.name \in TOOL_MAP
              /\ Len(invoked') = 1
              /\ invoked'[1].name = function_call'.name
       /\ pc' = "tool_running" => invoked' # <<>>
       /\ bookings' # bookings =>
              /\ pc = "tool_running"
              /\ function_call.name = "create_booking"
              /\ bookings' = bookings + 1
       /\ (pc = "idle" /\ pc' # "idle") => (invoked' = <<>> /\ bookings' = bookings)
       /\ (pc = "awaiting_model" /\ response'.kind = "response"
             /\ CallIdx(response'.parts) = {}) =>
              (invoked' = <<>> /\ bookings' = bookings /\ pc' = "idle")
       /\ collection' = collection
      ]_vars

\* C16 witness: create_booking, dispatched for a create_booking call, has
\* returned and the booking store holds its row
C16_Witness ==
    /\ bookings = 1
    /\ tool_outcome = [kind |-> "returned", value |-> "result1"]
    /\ invoked = <<[name |-> "create_booking", args |-> "args2"]>>
    /\ function_call.name = "create_booking"
    /\ pc = "awaiting_model"

ErrorReplies == {ChatExcept(e) : e \in ProviderErrors \cup {"list index out of range",
                                                            "'NoneType' object is not iterable"}}
\* the step ends a chat call in the except block
EndsInExcept == pc # "idle" /\ pc' = "idle" /\ outcome' \in ErrorReplies

\* C27: a chat call that ends in the exception path (the "I encountered an
\* error" or the finish_reason apology reply) leaves chat_history unchanged and
\* keeps the dialogue handle: neither the user message nor the error reply is
\* recorded, and the next chat continues the same dialogue.
C27_ExceptKeepsState ==
    [][/\ EndsInExcept =>
            /\ chat_history' = chat_history
            /\ recorded' = recorded
            /\ chat_session'.kind = "ChatSession"
            /\ chat_session.kind = "ChatSession"
            /\ Len(chat_session'.history) \in {Len(chat_session.history),
                                               Len(chat_session.history) + 1}
            /\ SubSeq(chat_session'.history, 1, Len(chat_session.history))
                   = chat_session.history
       /\ (pc = "idle" /\ pc' = "awaiting_model" /\ outcome \in ErrorReplies
             /\ chat_session # None) =>
            chat_session' = chat_session
      ]_vars

\* the second call of a dialogue failed: the first turn is still the history
\* and the handle is the one that answered it
C27_Witness ==
    /\ pc = "idle" /\ ncalls = 2
    /\ outcome \in ErrorReplies
    /\ Len(chat_history) = 2 /\ chat_history = recorded
    /\ chat_session.kind = "ChatSession"
    /\ Len(chat_session.history) >= 1
    /\ chat_session.history[1] = chat_history[1].content

\* C28: whenever a tool has been executed during a chat call, that call ends
\* by appending the turn's (user, assistant) pair to chat_history: a call that
\* returns the error reply without recording the turn has executed no tool.
\* Stated for the tool of the last round of the loop.
C28_ToolImpliesRecorded ==
    [][(pc # "idle" /\ pc' = "idle" /\ tool_outcome.kind \in {"returned", "raised"}) =>
          /\ outcome'.kind = "return"
          /\ recorded' = recorded \o Turn(user_message, outcome'.value)
          /\ Len(chat_history') >= 2
          /\ Suffix(chat_history', 2) = Turn(user_message, outcome'.value)
      ]_vars

----------------------------------------------------------------------------
(* Properties of the sessions *)

\* what session t sees of its assistant: the history and the dialogue handle
HistoryOf(t) == assistants[session_state[t]].chat_history
HandleOf(t) == assistants[session_state[t]].chat_session

----------------------------------------------------------------------------
(* Properties of search_knowledge_base *)

\* the remote attempt ended with a non-200 status or a request exception
RemoteFailed ==
    \/ kb_remote.kind = "request_exception"
    \/ kb_remote.kind = "status" /\ kb_remote.code # 200

\* A direct search of the index `col` for `query` with top_k = k, stated from
\* the records: the k records nearest to the query's embedding (all of them if
\* there are fewer), nearest first, each shown with its source file, its page
\* when it has one, and its text.
DirectBlock(rec) ==
    <<"[Source: ",
      IF "source_file" \in DOMAIN rec.metadata THEN rec.metadata.source_file.v
      ELSE "Unknown">>
    \o (IF "page_number" \in DOMAIN rec.metadata /\ rec.metadata.page_number.v # 0
        THEN <<" (Page ", ToString(rec.metadata.page_number.v), ")">> ELSE <<>>)
    \o <<"]\n", rec.document>>
DirectHits(col, qv, k) ==
    LET m == IF Len(col) < k THEN Len(col) ELSE k
        D(i) == Distance(col[i].embedding, qv)
        Before(i, j) == D(i) < D(j) \/ (D(i) = D(j) /\ i < j)
    IN CHOOSE sel \in [1..m -> 1..Len(col)] :
          /\ \A a, b \in 1..m : a < b => Before(sel[a], sel[b])
          /\ \A j \in 1..Len(col) :
                (\A a \in 1..m : sel[a] # j) => \A a \in 1..m : Before(sel[a], j)
DirectLocalSearch(col, query, k, store_ok, provider_ok) ==
    IF ~store_ok THEN <<"Error searching local knowledge base: ", "store unavailable">>
    ELSE IF col = <<>> THEN NoInformation
    ELSE LET qv == IF provider_ok THEN ProviderEmbedding(query) ELSE Vec(0)
             sel == DirectHits(col, qv, k)
         IN Join([n \in 1..Len(sel) |-> DirectBlock(col[sel[n]])], <<"\n\n---\n\n">>)

\* C9: when the remote request ends with a non-200 status, a timeout or a
\* network exception, search_knowledge_base returns (and does not raise) the
\* string a direct local search of the index gives for the same query with the
\* remote request's top_k.
C9_FallbackEqualsLocal ==
    (kb_pc = "done" /\ RemoteFailed) =>
        /\ kb_local.kind = "searched"
        /\ kb_result = Return(DirectLocalSearch(collection, kb_query, RemoteTopK,
                                                kb_local.store_ok, kb_local.provider_ok))

\* C9 witness: the remote request timed out and the fallback returned the three
\* nearest of four stored records
C9_Witness ==
    /\ kb_pc = "done"
    /\ kb_remote = [kind |-> "request_exception", what |-> "Timeout"]
    /\ Len(collection) = 4
    /\ kb_local.kind = "searched" /\ kb_local.hits = RemoteTopK
    /\ kb_result.kind = "return" /\ kb_result.value # NoInformation

\* C10: search_knowledge_base never returns the empty string; when the path that
\* answers (the remote with status 200, or the local fallback) has no results,
\* it returns the fixed "No relevant information" message.
C10_NeverEmpty ==
    kb_pc = "done" =>
        /\ kb_result.kind = "return"
        /\ kb_result.value # <<>>
        /\ (kb_remote.kind = "status" /\ kb_remote.code = 200
              /\ kb_remote.json = "dict" /\ kb_remote.results = <<>>)
           => kb_result.value = NoInformation
        /\ (kb_local.kind = "searched" /\ kb_local.store_ok /\ kb_local.hits = 0)
           => kb_result.value = NoInformation

\* C10 witness: the fallback searched an empty index and returned the message
C10_Witness ==
    /\ kb_pc = "done"
    /\ collection = <<>>
    /\ kb_local.kind = "searched" /\ kb_local.store_ok /\ kb_local.hits = 0
    /\ kb_result = Return(NoInformation)

----------------------------------------------------------------------------
(* Properties of the VectorStore *)

\* C17: reset_collection never fails and is idempotent: called on a populated,
\* an empty or a nonexistent collection, once or several times in a row, it
\* returns and leaves a collection with record count 0, whatever it found; a
\* search of that collection returns the empty list and no error.
C17_ResetIdempotent ==
    kb_last.op = "reset_collection" =>
        /\ kb_last.result.kind = "return"
        /\ coll_live
        /\ Len(collection) = 0
        /\ \A q \in Queries, k \in TopKs, ok \in BOOLEAN :
               search(collection, coll_live, q, k, ok) = Return(<<>>)
        /\ (kb_pc = "store_done" /\ kb_local.kind = "search") =>
               kb_result = Return(<<>>)

\* C17 witness: a collection deleted by another client was reset, and a search
\* of it has returned the empty list
C17_Witness ==
    /\ kb_last.op = "reset_collection"
    /\ kb_last.before = "nonexistent"
    /\ kb_pc = "store_done" /\ kb_local.kind = "search"
    /\ kb_result = Return(<<>>)

\* C18: while the collection is not reset (by this store, or deleted by
\* another client), its record count equals the number of documents passed to
\* add_documents so far, an empty list adding nothing; the ids of its records
\* are pairwise distinct; and no other step makes the count smaller.
C18_CountAndIds ==
    [][/\ coll_live' =>
              /\ Len(collection') = added'
              /\ \A i, j \in 1..Len(collection') :
                     collection'[i].id = collection'[j].id => i = j
       /\ Len(collection') < Len(collection) =>
              kb_last'.op \in {"reset_collection", "dropped"}
       /\ (kb_last'.op = "add_documents" /\ coll_live) =>
              /\ kb_last'.result.kind = "return"
              /\ SubSeq(collection', 1, Len(collection)) = collection
      ]_vars

\* C18 witness: four documents went in through add_documents, one of them with
\* a failed embedding, and the collection holds four records
C18_Witness ==
    /\ coll_live
    /\ kb_last.op = "add_documents"
    /\ added = 4 /\ Len(collection) = 4
    /\ \E i \in 1..4 : collection[i].embedding = Vec(0)
    /\ Cardinality({collection[i].id : i \in 1..4}) = 4

\* the records added with original_document_id = id, and those of them that
\* carry full_content
ChunksOf(id) ==
    {i \in 1..Len(collection) :
        /\ "original_document_id" \in DOMAIN collection[i].metadata
        /\ collection[i].metadata.original_document_id = StrV(id)}
ChunksWithFullContent(id) ==
    {i \in ChunksOf(id) : "full_content" \in DOMAIN collection[i].metadata}

\* C19: get_full_context(X) does not raise; when a record with
\* original_document_id = X carries full_content it returns that full content,
\* also when other chunks of X do not carry it; when no record has
\* original_document_id = X it returns the 'Document not found' value.
C19_FullContext ==
    (kb_pc = "store_done" /\ kb_local.kind = "get_full_context") =>
        /\ kb_result.kind = "return"
        /\ ChunksWithFullContent(kb_query) # {} =>
               /\ "full_content" \in DOMAIN kb_result.value
               /\ \E i \in ChunksWithFullContent(kb_query) :
                      kb_result.value.full_content = collection[i].metadata.full_content
        /\ ChunksOf(kb_query) = {} => kb_result.value = [error |-> "Document not found"]

\* C20: VectorStore.search(query, k) on the store's collection returns at most
\* k results, each with the text, the metadata and the distance of a stored
\* record, in order of ascending distance, that is of non-increasing
\* similarity_score = 1 - distance; on an empty collection it returns the
\* empty list; it does not raise.
C20_SearchTopK ==
    (kb_pc = "store_done" /\ kb_local.kind = "search" /\ coll_live) =>
        /\ kb_result.kind = "return"
        /\ LET res == kb_result.value
               qv == IF kb_local.provider_ok THEN ProviderEmbedding(kb_query) ELSE Vec(0)
           IN /\ Len(res) <= kb_local.top_k
              /\ Len(res) <= Len(collection)
              /\ \A n \in 1..Len(res) :
                    \E i \in 1..Len(collection) :
                        /\ res[n].content = StrV(collection[i].document)
                        /\ res[n].metadata = collection[i].metadata
                        /\ res[n].similarity_score =
                               1 - Distance(collection[i].embedding, qv)
              /\ \A m, n \in 1..Len(res) :
                    m < n => res[m].similarity_score >= res[n].similarity_score
              /\ collection = <<>> => res = <<>>

\* C20 witness: a search with k = 2 in a collection of four records has
\* returned two results, the nearer one first
C20_Witness ==
    /\ kb_pc = "store_done" /\ kb_local.kind = "search" /\ coll_live
    /\ kb_local.top_k = 2
    /\ Len(collection) = 4
    /\ kb_result.kind = "return"
    /\ Len(kb_result.value) = 2
    /\ kb_result.value[1].similarity_score > kb_result.value[2].similarity_score


\* C21: when the embedding provider fails, _get_embedding and
\* _get_query_embedding give the zero vector of dimension 768 instead of
\* raising, so add_documents and search on an existing collection return
\* normally for every provider outcome, and every stored or queried vector
\* has that dimension. Checked on each add_documents and search step.
C21_ZeroVectorFallback ==
    [][/\ (coll_live /\ kb_pc' = kb_pc /\ kb_last'.op = "add_documents") =>
            \A documents \in DocLists :
              \A provider_ok \in [1..Len(documents) -> BOOLEAN] :
                AddDocuments(documents, provider_ok) =>
                    /\ kb_last'.result.kind = "return"
                    /\ Len(collection') = Len(collection) + Len(documents)
                    /\ \A i \in 1..Len(documents) :
                          LET stored == collection'[Len(collection) + i].embedding IN
                          /\ stored.dim = 768
                          /\ ~provider_ok[i] => stored = [dim |-> 768, x |-> 0]
       /\ (coll_live /\ kb_pc = "idle" /\ kb_pc' = "store_done") =>
            \A query \in Queries, top_k \in TopKs, provider_ok \in BOOLEAN :
              StoreSearch(query, top_k, provider_ok) =>
                LET q == _get_query_embedding(query, provider_ok) IN
                /\ kb_result'.kind = "return"
                /\ q.dim = 768
                /\ ~provider_ok => q = [dim |-> 768, x |-> 0]
                /\ Len(kb_result'.value) = Min({top_k, Len(collection)})
       /\ \A i \in 1..Len(collection') : collection'[i].embedding.dim = 768
      ]_vars

\* a search whose query embedding failed returned hits from a collection that
\* holds a record whose embedding failed
C21_Witness ==
    /\ kb_pc = "store_done"
    /\ kb_local.kind = "search"
    /\ ~kb_local.provider_ok
    /\ kb_result.kind = "return"
    /\ Len(kb_result.value) > 0
    /\ \E i \in 1..Len(collection) : collection[i].embedding = [dim |-> 768, x |-> 0]
    /\ \E i \in 1..Len(collection) : collection[i].embedding.x # 0

\* the document a stored record was built from (the record keeps its content)
DocumentOf(rec) == CHOOSE d \in Documents : d.content = rec.document

RemoteRaisedRequestException ==
    \/ kb_remote.kind = "request_exception"
    \/ /\ kb_remote.kind = "status"
       /\ "raised" \in DOMAIN kb_remote
       /\ kb_remote.raised = "requests.JSONDecodeError"
RemoteAnswered200 == kb_remote.kind = "status" /\ kb_remote.code = 200
LocalSearched == kb_local.kind = "searched"

\* C24 as stated: within one search_knowledge_base call the local index is
\* searched if and only if the remote attempt ended with a non-200 status or
\* a request exception, and then exactly once; when the remote endpoint
\* answers 200 the local index is not consulted.
C24_LocalIffRemoteFailed ==
    kb_pc = "done" =>
        /\ LocalSearched <=> (RemoteFailed \/ RemoteRaisedRequestException)
        /\ LocalSearched => kb_local.times = 1
        /\ RemoteAnswered200 => ~LocalSearched

\* C24, amended: the local index is searched if and only if the remote
\* attempt ended with a non-200 status or a requests RequestException, the one
\* response.json() raises for a 200 answer whose body is not JSON included,
\* and then exactly once; when the remote endpoint answers 200 with a JSON
\* body, an empty result list included, the local index is not consulted.
C24_LocalIffRecoverable ==
    kb_pc = "done" =>
        /\ LocalSearched <=> (RemoteFailed \/ RemoteRaisedRequestException)
        /\ LocalSearched => kb_local.times = 1
        /\ (RemoteAnswered200 /\ kb_remote.json \in {"dict", "list"}) => ~LocalSearched

\* a call has returned after a non-200 answer and one local search
C24_Witness ==
    /\ kb_pc = "done"
    /\ kb_remote.kind = "status" /\ kb_remote.code = 404
    /\ LocalSearched /\ kb_local.times = 1
    /\ kb_result.kind = "return"


----------------------------------------------------------------------------
(* Properties of the booking store *)

\* the arguments satisfy the NOT NULL constraints
ValidArgs(a) == NoneArg \notin {a.name, a.email, a.booking_type, a.date, a.time}
\* the call of c has ended and overlapped only calls for other emails
EndedAmongOtherCustomers(c) ==
    /\ calls[c].pc = "returned"
    /\ ValidArgs(calls[c].args)
    /\ calls[c].args.email \notin calls[c].met
\* the step ends the call of c
Ends(c) == calls[c].pc \notin {"idle", "returned"} /\ calls'[c].pc = "returned"

\* C23 as stated: for any interleaving of concurrent create_booking calls for
\* customers with different emails, every call succeeds.
C23_EveryCallSucceeds ==
    \A c \in Callers : EndedAmongOtherCustomers(c) => calls[c].ended = "created"

\* C23, amended: among concurrent create_booking calls for customers with
\* different emails a call either succeeds or fails with "database is locked"
\* having changed no row; the booking row a call creates references a
\* customer row holding the name, email and phone of that call; no call
\* alters a customer row of another email or an existing booking row.
C23_ConcurrentBookings ==
    [][\A c \in Callers :
          /\ (Ends(c) /\ calls'[c].ended = "error" /\ ValidArgs(calls[c].args)
                /\ calls[c].args.email \notin calls[c].met) =>
                 /\ calls'[c].error = "database is locked"
                 /\ db' = db
          /\ (Ends(c) /\ calls'[c].ended = "created") =>
                 LET a == calls[c].args
                     new == db'.bookings[Len(db'.bookings)]
                 IN /\ Len(db'.bookings) = Len(db.bookings) + 1
                    /\ SubSeq(db'.bookings, 1, Len(db.bookings)) = db.bookings
                    /\ new.id = calls'[c].booking_id
                    /\ \E i \in 1..Len(db'.customers) :
                          /\ db'.customers[i].customer_id = new.customer_id
                          /\ db'.customers[i].name = a.name
                          /\ db'.customers[i].email = a.email
                          /\ db'.customers[i].phone = a.phone
                    /\ \A i \in 1..Len(db.customers) :
                          db.customers[i].email # a.email =>
                              db'.customers[i] = db.customers[i]
          /\ (calls'[c] # calls[c] /\ ~(Ends(c) /\ calls'[c].ended = "created")) =>
                 db' = db
      ]_vars

\* two calls for different emails overlapped and both created their booking
C23_Witness ==
    /\ \A c \in Callers : EndedAmongOtherCustomers(c) /\ calls[c].ended = "created"
    /\ \A c \in Callers : calls[c].met # {}
    /\ Len(db.customers) = 2

\* the customer rows of d with this email
RowsWithEmail(d, email) == {i \in 1..Len(d.customers) : d.customers[i].email = email}

\* C25: after any sequence of create_booking calls no two customer rows share
\* an email: a call with an email already stored reuses that customer's id and
\* overwrites its name and phone, a call with a new email inserts one customer
\* row, and every successful call inserts exactly one booking row, with status
\* 'confirmed' and an id not used by any earlier booking.
C25_CustomerAndBookingRows ==
    [][/\ \A i, j \in 1..Len(db'.customers) :
            (db'.customers[i].email = db'.customers[j].email
               \/ db'.customers[i].customer_id = db'.customers[j].customer_id) => i = j
       /\ \A c \in Callers :
            (Ends(c) /\ calls'[c].ended = "created") =>
                LET a == calls[c].args
                    old == RowsWithEmail(db, a.email)
                    new == db'.bookings[Len(db'.bookings)]
                IN /\ \A i \in old :
                        /\ Len(db'.customers) = Len(db.customers)
                        /\ db'.customers[i] = [db.customers[i] EXCEPT !.name = a.name,
                                                                      !.phone = a.phone]
                        /\ new.customer_id = db.customers[i].customer_id
                   /\ old = {} =>
                        /\ Len(db'.customers) = Len(db.customers) + 1
                        /\ SubSeq(db'.customers, 1, Len(db.customers)) = db.customers
                        /\ db'.customers[Len(db'.customers)] =
                               [customer_id |-> new.customer_id, name |-> a.name,
                                email |-> a.email, phone |-> a.phone]
                   /\ Len(db'.bookings) = Len(db.bookings) + 1
                   /\ c = "tool" => new.status = "confirmed"
                   /\ \A k \in 1..Len(db.bookings) : db.bookings[k].id # new.id
      ]_vars

\* a tool call for an email already stored has created a second booking for
\* that customer under the new name
C25_Witness ==
    /\ calls["tool"].pc = "returned" /\ calls["tool"].ended = "created"
    /\ calls["tool"].args.name = "Anna"
    /\ \E i \in 1..Len(db.customers) :
          /\ db.customers[i].email = "ann@x" /\ db.customers[i].name = "Anna"
          /\ db.customers[i].customer_id = calls["tool"].customer_id
          /\ Cardinality({k \in 1..Len(db.bookings) :
                             db.bookings[k].customer_id = db.customers[i].customer_id}) = 2
    /\ Len(db.customers) = 2

\* C30: create_booking is all-or-nothing and never raises: when a statement
\* of the call fails it returns the "Error creating booking" string and has
\* changed neither table (no customer inserted or updated without its
\* booking). Stated on the steps of the tool's call: only the step that
\* commits the booking changes the database, and a call always ends with a
\* returned value.
C30_AllOrNothing ==
    [][LET c == "tool" IN
       /\ (calls'[c] # calls[c] /\ calls'[c].ended # "created") => db' = db
       /\ Ends(c) =>
            /\ calls'[c].result.kind = "return"
            /\ db_lock' # c
            /\ calls'[c].ended = "error" =>
                  /\ calls'[c].result.value[1] = "Error creating booking: "
                  /\ Len(db'.customers) = Len(db.customers)
                  /\ \A i \in 1..Len(db.customers) : db'.customers[i] = db.customers[i]
                  /\ db'.bookings = db.bookings
      ]_vars

\* the INSERT INTO bookings of a tool call failed after its customer row was
\* written, and the customers table has no such row
C30_Witness ==
    /\ calls["tool"].pc = "returned" /\ calls["tool"].ended = "error"
    /\ calls["tool"].error = "NOT NULL constraint failed: bookings.booking_type"
    /\ calls["tool"].result.kind = "return"
    /\ RowsWithEmail(db, calls["tool"].args.email) = {}
    /\ db_lock = "none"

----------------------------------------------------------------------------
(* Properties of the lazy singletons *)

\* C29: for any interleaving of concurrent first calls, get_vector_store
\* constructs at most one VectorStore and every call returns that same
\* instance; likewise get_assistant constructs at most one BookingAssistant.
C29_AtMostOneInstance ==
    \A g \in Getters :
        /\ constructed[g] <= 1
        /\ Cardinality(returned[g]) <= 1

============================================================================
